---- MODULE Spec2Model ----
(***************************************************************************)
(* The Datasource service of perses                                        *)
(* (internal/api/impl/v1/datasource/service.go): Create, Update, Delete,   *)
(* Get and List over a persistence collaborator (the DAO) and a schema     *)
(* validator.  Every request is a sequence of collaborator calls; requests *)
(* of different callers interleave at those calls.                         *)
(***************************************************************************)
EXTENDS Naturals, Sequences, FiniteSets

VARIABLES
    store,      \* the DAO's content: a set of stored Datasource values
    now,        \* the wall clock read by CreateNow / Metadata.Update
    pc,         \* pc[p]: where request p stands
    req,        \* req[p]: the operation and the arguments the caller passed
    old,        \* update's oldEntity, fetched by s.Get
    res,        \* res[p]: the error kind returned ("ok" for nil)
    out,        \* out[p]: the value returned, as a sequence
    calls,      \* calls[p]: the collaborator calls request p made, in order
    nreq,       \* number of requests submitted
    lastWrite   \* the last change of the store: the operation and the entity

vars == <<store, now, pc, req, old, res, out, calls, nreq, lastWrite>>

----------------------------------------------------------------------------
(* Bounds *)

MaxRequests == 3
MaxTime == 2

\* the slots in which requests run: as many requests may overlap
Procs == {1, 2}

----------------------------------------------------------------------------
(* Values *)

Names == {"ds1", "ds2"}
\* "" is the empty Metadata.Project, the scope of the unscoped resources
Projects == {"", "p1"}
Kinds == {"prometheus"}
\* the plugin payload, opaque to the service: the validator accepts "good"
Payloads == {"good", "bad"}
\* the concrete type behind api.Entity
EntityTypes == {"Datasource", "Dashboard"}
\* the DAO lists in key order
NameOrder == <<"ds1", "ds2">>

Datasource(name, project, dflt, kind, payload, created, updated) ==
    [Type |-> "Datasource",
     Metadata |-> [Name |-> name, Project |-> project,
                   CreatedAt |-> created, UpdatedAt |-> updated],
     Spec |-> [Default |-> dflt, Kind |-> kind, Payload |-> payload]]

\* what a caller can submit: timestamps not populated (0)
InputEntities ==
    {Datasource(n, pr, d, k, pl, 0, 0) :
        n \in Names, pr \in Projects, d \in BOOLEAN, k \in Kinds, pl \in Payloads}

\* an api.Entity that is not a *v1.Datasource
OtherEntity == [Datasource("ds1", "p1", FALSE, "prometheus", "good", 0, 0)
                    EXCEPT !.Type = "Dashboard"]

Parameters == [Project : Projects, Name : Names]

NoEntity == Datasource("", "", FALSE, "", "", 0, 0)
NoParams == [Project |-> "", Name |-> ""]
NoQuery == [Project |-> "", Kind |-> "", Default |-> FALSE]
\* keyFree: whether a Create's key was unused when the request was submitted
NoReq == [op |-> "none", entity |-> NoEntity, parameters |-> NoParams, query |-> NoQuery,
          keyFree |-> FALSE]
\* input: the entity as the caller submitted it; entity: as it was written
NoWrite == [op |-> "none", entity |-> NoEntity, input |-> NoEntity]

\* the kinds a List may ask for: those submitted and one more
QueryKinds == Kinds \cup {"sql"}

Queries == [Project : Projects, Kind : QueryKinds, Default : BOOLEAN]

\* errors a collaborator call can return besides its result
DaoErrors == {"KeyNotFound", "KeyConflict", "DBError"}
\* outcome of dao.List: it has no key to miss or to collide with
ListFaults == {"none"} \cup DaoErrors
\* a point operation fails unexpectedly or does what the key's presence decides
PointFaults == {"none", "DBError"}
\* outcome of the dao.List of service.validate, which does not look at the error's kind
ValidateFaults == {"none", "DBError"}

Call(name, err) == [call |-> name, err |-> err]

----------------------------------------------------------------------------
(* The persistence collaborator (datasource.DAO) *)

SameKey(e, project, name) ==
    e.Metadata.Project = project /\ e.Metadata.Name = name

Stored(project, name) == {e \in store : SameKey(e, project, name)}

RECURSIVE SetToSeq(_)
SetToSeq(S) ==
    IF S = {} THEN <<>>
    ELSE LET x == CHOOSE y \in S : TRUE IN <<x>> \o SetToSeq(S \ {x})

RECURSIVE ListFrom(_, _)
ListFrom(project, i) ==
    IF i > Len(NameOrder) THEN <<>>
    ELSE SetToSeq(Stored(project, NameOrder[i])) \o ListFrom(project, i + 1)

\* dao.List(&Query{Project: project}): the scope's resources, in key order
DaoList(project) == ListFrom(project, 1)

\* dao.Create: key-conflict when (Project, Name) is already stored
DaoCreate(entity, fault) ==
    IF fault # "none"
    THEN [err |-> fault, store |-> store]
    ELSE IF Stored(entity.Metadata.Project, entity.Metadata.Name) # {}
    THEN [err |-> "KeyConflict", store |-> store]
    ELSE [err |-> "none", store |-> store \cup {entity}]

\* the ways dao.Update can fail: as any operation on a key can and, when the key
\* is not stored, by reporting key-not-found where it does not store the entity anew
UpdateFaults(entity) ==
    PointFaults \cup
        (IF Stored(entity.Metadata.Project, entity.Metadata.Name) = {}
         THEN {"KeyNotFound"} ELSE {})

\* dao.Update: overwrites by key
DaoUpdate(entity, fault) ==
    IF fault # "none"
    THEN [err |-> fault, store |-> store]
    ELSE [err |-> "none",
          store |-> (store \ Stored(entity.Metadata.Project, entity.Metadata.Name))
                        \cup {entity}]

\* dao.Delete: key-not-found when absent
DaoDelete(project, name, fault) ==
    IF fault # "none"
    THEN [err |-> fault, store |-> store]
    ELSE IF Stored(project, name) = {}
    THEN [err |-> "KeyNotFound", store |-> store]
    ELSE [err |-> "none", store |-> store \ Stored(project, name)]

\* dao.Get: key-not-found when absent
DaoGet(project, name, fault) ==
    IF fault # "none"
    THEN [err |-> fault, entity |-> NoEntity]
    ELSE IF Stored(project, name) = {}
    THEN [err |-> "KeyNotFound", entity |-> NoEntity]
    ELSE [err |-> "none", entity |-> CHOOSE e \in Stored(project, name) : TRUE]

----------------------------------------------------------------------------
(* The schema validator and the metadata helpers *)

\* validate.Datasource(entity, list, sch): the payload fits its kind's schema and
\* a default entity meets no differently named default in list
ValidateDatasource(entity, list) ==
    /\ entity.Spec.Payload = "good"
    /\ entity.Spec.Default =>
          \A i \in 1..Len(list) :
              ~(list[i].Spec.Default /\ list[i].Metadata.Name # entity.Metadata.Name)

\* Metadata.CreateNow()
CreateNow(entity, t) ==
    [entity EXCEPT !.Metadata.CreatedAt = t, !.Metadata.UpdatedAt = t]

\* Metadata.Update(previous)
MetadataUpdate(entity, previous, t) ==
    [entity EXCEPT !.Metadata.CreatedAt = previous.CreatedAt,
                   !.Metadata.UpdatedAt = t]

\* v1.FilterDatasource(kind, default, list)
FilterDatasource(kind, dflt, list) ==
    SelectSeq(list, LAMBDA e : e.Spec.Kind = kind /\ e.Spec.Default = dflt)

\* time.Now(): the clock advances between two readings until the model's last instant
Tick == IF now < MaxTime THEN now + 1 ELSE now

----------------------------------------------------------------------------
(* The service *)

\* validate with the list taken over every project instead of the entity's own
validateEveryProject(entity, fault) ==
    IF entity.Spec.Default /\ fault # "none" THEN fault
    ELSE IF ValidateDatasource(entity,
                IF entity.Spec.Default THEN SetToSeq(store) ELSE <<>>)
    THEN "none"
    ELSE "invalid"

\* service.validate: "none" for nil, else the error it returns
validate(entity, fault) ==
    IF entity.Spec.Default /\ fault # "none" THEN fault
    ELSE IF ValidateDatasource(entity,
                IF entity.Spec.Default THEN DaoList(entity.Metadata.Project) ELSE <<>>)
    THEN "none"
    ELSE "invalid"

\* validateCalls with the list read whatever Spec.Default is
validateCallsAlwaysList(entity, fault) ==
    <<Call("List", fault)>>
        \o (IF fault # "none" THEN <<>> ELSE <<Call("Validate", validate(entity, fault))>>)

\* the collaborator calls service.validate makes: dao.List for a default entity and,
\* unless that failed, validate.Datasource
validateCalls(entity, fault) ==
    (IF entity.Spec.Default THEN <<Call("List", fault)>> ELSE <<>>)
        \o (IF entity.Spec.Default /\ fault # "none" THEN <<>>
            ELSE <<Call("Validate", validate(entity, fault))>>)

\* ServiceGet taking every outcome of dao.Get for a success
ServiceGetSwallows(parameters, fault) ==
    [err |-> "ok", entity |-> DaoGet(parameters.Project, parameters.Name, fault).entity]

\* ServiceGet without the key-not-found case
ServiceGetNoNotFound(parameters, fault) ==
    LET r == DaoGet(parameters.Project, parameters.Name, fault) IN
    IF r.err = "none" THEN [err |-> "ok", entity |-> r.entity]
    ELSE [err |-> "Internal", entity |-> NoEntity]

\* service.Get: the translated error and the entity
ServiceGet(parameters, fault) ==
    LET r == DaoGet(parameters.Project, parameters.Name, fault) IN
    IF r.err = "none" THEN [err |-> "ok", entity |-> r.entity]
    ELSE IF r.err = "KeyNotFound" THEN [err |-> "NotFound", entity |-> NoEntity]
    ELSE [err |-> "Internal", entity |-> NoEntity]

\* createError without the key-conflict case
createErrorNoConflict(err) == "Internal"

\* the type assertion taken to succeed for every entity
IsDatasourceAlways(entity) == TRUE

\* service.Create, service.Update: entity.(*v1.Datasource)
IsDatasource(entity) == entity.Type = "Datasource"

\* the test of dao.Update's error inverted
updateFailedInverted(err) == err = "none"

\* service.update: dao.Update returned an error
updateFailed(err) == err # "none"

\* listError translating as the other operations do
listErrorTranslated(err) == IF err = "KeyNotFound" THEN "NotFound" ELSE "Internal"

\* service.List: the error returned for a failed dao.List
listError(err) == err

\* listResult without the filter
listResultUnfiltered(query) == DaoList(query.Project)

\* service.List: the value returned when dao.List succeeded
listResult(query) ==
    FilterDatasource(query.Kind, query.Default, DaoList(query.Project))

\* service.create: the error kind for a failed dao.Create
createError(err) == IF err = "KeyConflict" THEN "Conflict" ELSE "Internal"

\* deleteError without the key-not-found case
deleteErrorNoNotFound(err) == "Internal"

\* service.Delete: the error kind for a failed dao.Delete
deleteError(err) == IF err = "KeyNotFound" THEN "NotFound" ELSE "Internal"

\* the name check left out
NameMismatchNever(entity, parameters) == FALSE

\* service.update: metadata.name and the name of the request differ
NameMismatch(entity, parameters) == entity.Metadata.Name # parameters.Name

\* the project check left out
ProjectMismatchNever(entity, parameters) == FALSE

\* service.update: metadata.project is given and differs from the request's project
ProjectMismatch(entity, parameters) ==
    /\ entity.Metadata.Project # ""
    /\ entity.Metadata.Project # parameters.Project

\* the entity after update's identity checks (empty project filled in)
Filled(entity, parameters) ==
    IF entity.Metadata.Project = ""
    THEN [entity EXCEPT !.Metadata.Project = parameters.Project]
    ELSE entity

\* slot p has no request in flight
Free(p) == pc[p] \in {"idle", "done"}

\* a request may be submitted and runs in p, the first free slot; when seq, requests
\* run one at a time
Begin(p, seq) ==
    /\ Free(p)
    /\ \A q \in Procs : q < p => ~Free(q)
    /\ nreq < MaxRequests
    /\ seq => \A q \in Procs : Free(q)

\* createEntity without the call of CreateNow
createEntityUnstamped(p) == req[p].entity

\* service.create: the entity handed to dao.Create
createEntity(p) == CreateNow(req[p].entity, now)

\* updateEntity writing back the previous version instead of the submitted one
updateEntityOld(p) == [old[p] EXCEPT !.Metadata.UpdatedAt = now]

\* updateEntity stamping the creation time anew
updateEntityRestamped(p) ==
    CreateNow(Filled(req[p].entity, req[p].parameters), now)

\* service.update: the entity handed to dao.Update
updateEntity(p) ==
    MetadataUpdate(Filled(req[p].entity, req[p].parameters), old[p].Metadata, now)

\* a response is kept until the next request is submitted
Cleared(f, blank) == [q \in Procs |-> IF pc[q] = "done" THEN blank ELSE f[q]]

\* request r of caller p is submitted and runs to label, having made the calls cs
\* and, when label is "done", returning (err, value)
Enter(p, r, cs, label, err, value) ==
    /\ req' = [Cleared(req, NoReq) EXCEPT ![p] = r]
    /\ calls' = [Cleared(calls, <<>>) EXCEPT ![p] = cs]
    /\ old' = [Cleared(old, NoEntity) EXCEPT ![p] = NoEntity]
    /\ pc' = [Cleared(pc, "idle") EXCEPT ![p] = label]
    /\ res' = [Cleared(res, "none") EXCEPT ![p] = err]
    /\ out' = [Cleared(out, <<>>) EXCEPT ![p] = value]
    /\ nreq' = nreq + 1

\* request p makes the call c and goes on to label, returning (err, value) at "done"
Step(p, c, label, err, value) ==
    /\ calls' = [calls EXCEPT ![p] = Append(@, c)]
    /\ pc' = [pc EXCEPT ![p] = label]
    /\ res' = [res EXCEPT ![p] = err]
    /\ out' = [out EXCEPT ![p] = value]
    /\ UNCHANGED <<req, nreq>>

\* service.Create and service.create up to the validation
Create(p, seq) ==
    /\ Begin(p, seq)
    /\ \E entity \in InputEntities \cup {OtherEntity}, fault \in ValidateFaults :
          LET r == [NoReq EXCEPT !.op = "Create", !.entity = entity,
                                 !.keyFree = Stored(entity.Metadata.Project,
                                                    entity.Metadata.Name) = {}]
          IN
          IF ~IsDatasource(entity)
          THEN /\ fault = "none"
               /\ Enter(p, r, <<>>, "done", "BadRequest", <<>>)
          ELSE /\ ~entity.Spec.Default => fault = "none"
               /\ IF validate(entity, fault) # "none"
                  THEN Enter(p, r, validateCalls(entity, fault), "done", "BadRequest", <<>>)
                  ELSE Enter(p, r, validateCalls(entity, fault), "create", "none", <<>>)
    /\ UNCHANGED <<store, now, lastWrite>>

\* service.create from CreateNow on
createWrite(p) ==
    /\ pc[p] = "create"
    /\ \E fault \in PointFaults :
          LET entity == createEntity(p)
              r == DaoCreate(entity, fault)
          IN  /\ store' = r.store
              /\ IF r.err # "none"
                 THEN /\ Step(p, Call("Create", r.err), "done", createError(r.err), <<>>)
                      /\ UNCHANGED lastWrite
                 ELSE /\ Step(p, Call("Create", r.err), "done", "ok", <<entity>>)
                      /\ lastWrite' = [op |-> "Create", entity |-> entity,
                                       input |-> req[p].entity]
    /\ now' = Tick
    /\ UNCHANGED old

\* service.Update and service.update up to the identity checks
Update(p, seq) ==
    /\ Begin(p, seq)
    /\ \E entity \in InputEntities \cup {OtherEntity}, parameters \in Parameters,
          fault \in ValidateFaults :
          LET r == [NoReq EXCEPT !.op = "Update", !.entity = entity,
                                 !.parameters = parameters]
          IN
          IF ~IsDatasource(entity)
          THEN /\ fault = "none"
               /\ Enter(p, r, <<>>, "done", "BadRequest", <<>>)
          ELSE /\ ~entity.Spec.Default => fault = "none"
               /\ IF validate(entity, fault) # "none"
                  THEN Enter(p, r, validateCalls(entity, fault), "done", "BadRequest", <<>>)
                  ELSE IF NameMismatch(entity, parameters)
                  THEN Enter(p, r, validateCalls(entity, fault), "done", "BadRequest", <<>>)
                  ELSE IF ProjectMismatch(entity, parameters)
                  THEN Enter(p, r, validateCalls(entity, fault), "done", "BadRequest", <<>>)
                  ELSE Enter(p, r, validateCalls(entity, fault), "get", "none", <<>>)
    /\ UNCHANGED <<store, now, lastWrite>>

\* service.update: the fetch of the previous version
updateGet(p) ==
    /\ pc[p] = "get"
    /\ \E fault \in PointFaults :
          LET g == ServiceGet(req[p].parameters, fault)
              r == DaoGet(req[p].parameters.Project, req[p].parameters.Name, fault)
          IN  /\ old' = [old EXCEPT ![p] = g.entity]
              /\ IF g.err # "ok"
                 THEN Step(p, Call("Get", r.err), "done", g.err, <<>>)
                 ELSE Step(p, Call("Get", r.err), "update", "none", <<>>)
    /\ UNCHANGED <<store, now, lastWrite>>

\* service.update from Metadata.Update on
updateWrite(p) ==
    /\ pc[p] = "update"
    /\ \E fault \in UpdateFaults(updateEntity(p)) :
          LET entity == updateEntity(p)
              r == DaoUpdate(entity, fault)
          IN  /\ store' = r.store
              /\ IF updateFailed(r.err)
                 THEN /\ Step(p, Call("Update", r.err), "done", "Internal", <<>>)
                      /\ UNCHANGED lastWrite
                 ELSE /\ Step(p, Call("Update", r.err), "done", "ok", <<entity>>)
                      /\ lastWrite' = [op |-> "Update", entity |-> entity,
                                       input |-> req[p].entity]
    /\ now' = Tick
    /\ UNCHANGED old

\* service.Delete
Delete(p, seq) ==
    /\ Begin(p, seq)
    /\ \E parameters \in Parameters, fault \in PointFaults :
          LET r == DaoDelete(parameters.Project, parameters.Name, fault)
              rq == [NoReq EXCEPT !.op = "Delete", !.parameters = parameters]
          IN  /\ store' = r.store
              /\ IF r.err # "none"
                 THEN /\ Enter(p, rq, <<Call("Delete", r.err)>>, "done",
                               deleteError(r.err), <<>>)
                      /\ UNCHANGED lastWrite
                 ELSE /\ Enter(p, rq, <<Call("Delete", r.err)>>, "done", "ok", <<>>)
                      /\ lastWrite' =
                            [op |-> "Delete",
                             entity |-> CHOOSE e \in Stored(parameters.Project,
                                                            parameters.Name) : TRUE,
                             input |-> NoEntity]
    /\ UNCHANGED now

\* service.Get
Get(p, seq) ==
    /\ Begin(p, seq)
    /\ \E parameters \in Parameters, fault \in PointFaults :
          LET g == ServiceGet(parameters, fault)
              r == DaoGet(parameters.Project, parameters.Name, fault)
              rq == [NoReq EXCEPT !.op = "Get", !.parameters = parameters]
          IN  IF g.err # "ok"
              THEN Enter(p, rq, <<Call("Get", r.err)>>, "done", g.err, <<>>)
              ELSE Enter(p, rq, <<Call("Get", r.err)>>, "done", "ok", <<g.entity>>)
    /\ UNCHANGED <<store, now, lastWrite>>

\* service.List
List(p, seq) ==
    /\ Begin(p, seq)
    /\ \E query \in Queries, fault \in ListFaults :
          LET rq == [NoReq EXCEPT !.op = "List", !.query = query] IN
          IF fault # "none"
          THEN Enter(p, rq, <<Call("List", fault)>>, "done", listError(fault), <<>>)
          ELSE Enter(p, rq, <<Call("List", fault)>>, "done", "ok", listResult(query))
    /\ UNCHANGED <<store, now, lastWrite>>

----------------------------------------------------------------------------
(* Specifications *)

\* no request yet
NoRequests ==
    /\ pc = [p \in Procs |-> "idle"]
    /\ req = [p \in Procs |-> NoReq]
    /\ old = [p \in Procs |-> NoEntity]
    /\ res = [p \in Procs |-> "none"]
    /\ out = [p \in Procs |-> <<>>]
    /\ calls = [p \in Procs |-> <<>>]
    /\ nreq = 0
    /\ lastWrite = NoWrite

\* NewService: no request yet, over an empty store
Init ==
    /\ store = {}
    /\ now = 1
    /\ pc = [p \in Procs |-> "idle"]
    /\ req = [p \in Procs |-> NoReq]
    /\ old = [p \in Procs |-> NoEntity]
    /\ res = [p \in Procs |-> "none"]
    /\ out = [p \in Procs |-> <<>>]
    /\ calls = [p \in Procs |-> <<>>]
    /\ nreq = 0
    /\ lastWrite = NoWrite

\* requests of different callers interleave at their collaborator calls
Next ==
    \E p \in Procs :
        \/ Create(p, FALSE)
        \/ createWrite(p)
        \/ Update(p, FALSE)
        \/ updateGet(p)
        \/ updateWrite(p)
        \/ Delete(p, FALSE)
        \/ Get(p, FALSE)
        \/ List(p, FALSE)

Spec == Init /\ [][Next]_vars

\* requests run one at a time
NextSeq ==
    \E p \in Procs :
        \/ Create(p, TRUE)
        \/ createWrite(p)
        \/ Update(p, TRUE)
        \/ updateGet(p)
        \/ updateWrite(p)
        \/ Delete(p, TRUE)
        \/ Get(p, TRUE)
        \/ List(p, TRUE)

SpecSeq == Init /\ [][NextSeq]_vars

\* what a store can hold: Datasources of any kind, written at the first instant
ListEntities ==
    {Datasource(n, pr, d, k, "good", 1, 1) :
        n \in Names, pr \in Projects, d \in BOOLEAN, k \in QueryKinds}

\* the stores: at most one Datasource under a key
ListStores ==
    {S \in SUBSET ListEntities :
        \A e, f \in S : SameKey(e, f.Metadata.Project, f.Metadata.Name) => e = f}

\* NewService over a store that is already populated
InitList ==
    /\ store \in ListStores
    /\ now = 1
    /\ NoRequests

\* List requests only
NextList == \E p \in Procs : List(p, TRUE)

SpecList == InitList /\ [][NextList]_vars

TypeOK ==
    /\ now \in 1..MaxTime
    /\ nreq \in 0..MaxRequests
    /\ \A p \in Procs : pc[p] \in {"idle", "create", "get", "update", "done"}

----------------------------------------------------------------------------
(* Vocabulary of the properties *)

\* the stored Datasources of a project that are default
DefaultsIn(project) ==
    {e \in store : e.Metadata.Project = project /\ e.Spec.Default}

\* this step submits a request, which runs in slot p
Submits(p) ==
    /\ nreq' = nreq + 1
    /\ Free(p)
    /\ \A q \in Procs : q < p => ~Free(q)

\* a collaborator call among cs failed unexpectedly: a storage failure, or any
\* failure of a List
Unexpected(cs) ==
    \E i \in 1..Len(cs) :
        cs[i].err = "DBError" \/ (cs[i].call = "List" /\ cs[i].err # "none")

\* request p passed validation and the identity checks and went on to the store
Passed(p) == \E i \in 1..Len(calls[p]) : calls[p][i].call \in {"Create", "Get"}

\* the timestamps of e are populated
Stamped(e) == e.Metadata.CreatedAt >= 1 /\ e.Metadata.UpdatedAt >= 1

\* e and f are equal in name, project and spec
SameButTimes(e, f) ==
    /\ e.Metadata.Name = f.Metadata.Name
    /\ e.Metadata.Project = f.Metadata.Project
    /\ e.Spec = f.Spec

----------------------------------------------------------------------------
(* C1 *)

\* C1: with requests running one at a time, every project scope holds at most one
\* Datasource with Spec.Default = TRUE in every reachable store, Update requests with
\* an empty Metadata.Project included.
C1_AtMostOneDefaultPerProject ==
    \A project \in Projects : Cardinality(DefaultsIn(project)) <= 1

----------------------------------------------------------------------------
(* C2 *)

\* the defaults stored in e's project under another name
OtherDefaults(e) ==
    {d \in DefaultsIn(e.Metadata.Project) : d.Metadata.Name # e.Metadata.Name}

\* C2: a Create of a Default Datasource returns malformed-request and leaves the
\* store unchanged whenever another default is stored in its project when it is
\* validated; when the only stored defaults are in other projects it passes
\* validation and, its key being unused, succeeds and is stored (payload valid, no
\* collaborator call failing unexpectedly).
C2_DefaultCreate ==
    [][\A p \in Procs :
        /\ (/\ Submits(p)
            /\ req'[p].op = "Create"
            /\ req'[p].entity.Type = "Datasource"
            /\ req'[p].entity.Spec.Default)
           => /\ OtherDefaults(req'[p].entity) # {}
                 => /\ pc'[p] = "done"
                    /\ res'[p] = "BadRequest"
                    /\ store' = store
              /\ (/\ OtherDefaults(req'[p].entity) = {}
                  /\ req'[p].entity.Spec.Payload = "good"
                  /\ ~Unexpected(calls'[p]))
                 => pc'[p] = "create"
        /\ (/\ pc[p] = "create"
            /\ pc'[p] = "done"
            /\ req[p].entity.Spec.Default
            /\ Stored(req[p].entity.Metadata.Project, req[p].entity.Metadata.Name) = {}
            /\ ~Unexpected(calls'[p]))
           => /\ res'[p] = "ok"
              /\ Len(out'[p]) = 1
              /\ SameButTimes(out'[p][1], req[p].entity)
              /\ store' = store \cup {out'[p][1]}
      ]_vars

\* a default was created in a project while another project already held a default,
\* and the next default submitted for that project under another name is rejected
C2_Witness ==
    \E p \in Procs :
        /\ pc[p] = "done"
        /\ req[p].op = "Create"
        /\ req[p].entity.Spec.Default
        /\ req[p].entity.Spec.Payload = "good"
        /\ ~Unexpected(calls[p])
        /\ res[p] = "BadRequest"
        /\ lastWrite.op = "Create"
        /\ lastWrite.entity.Spec.Default
        /\ lastWrite.entity \in OtherDefaults(req[p].entity)
        /\ \E d \in store :
              /\ d.Spec.Default
              /\ d.Metadata.Project # lastWrite.entity.Metadata.Project
              /\ d.Metadata.CreatedAt < lastWrite.entity.Metadata.CreatedAt

----------------------------------------------------------------------------
(* C3 *)

\* p and q are Create requests for the same key that overlapped, both submitted
\* while the key was unused, both past validation and returned, no collaborator call
\* of theirs having failed unexpectedly
RacingCreates(p, q) ==
    /\ p # q
    /\ pc[p] = "done" /\ pc[q] = "done"
    /\ req[p].op = "Create" /\ req[q].op = "Create"
    /\ req[p].entity.Metadata.Name = req[q].entity.Metadata.Name
    /\ req[p].entity.Metadata.Project = req[q].entity.Metadata.Project
    /\ req[p].keyFree /\ req[q].keyFree
    /\ Passed(p) /\ Passed(q)
    /\ ~Unexpected(calls[p]) /\ ~Unexpected(calls[q])

\* C3: of the overlapping Create requests for one unused (Project, Name) that pass
\* validation, exactly one returns success and the other conflict, and the store
\* holds exactly one resource under the key, the one the successful request
\* submitted.
C3_OneCreateWins ==
    \A p, q \in Procs :
        RacingCreates(p, q)
        => /\ {res[p], res[q]} = {"ok", "Conflict"}
           /\ \A w \in {p, q} :
                 res[w] = "ok"
                 => /\ Len(out[w]) = 1
                    /\ SameButTimes(out[w][1], req[w].entity)
                    /\ Stored(req[w].entity.Metadata.Project,
                              req[w].entity.Metadata.Name) = {out[w][1]}

\* two overlapping Creates of different specs for one key have both returned
C3_Witness ==
    \E p, q \in Procs :
        /\ RacingCreates(p, q)
        /\ req[p].entity.Spec # req[q].entity.Spec
        /\ res[p] = "Conflict"
        /\ res[q] = "ok"

----------------------------------------------------------------------------
(* C4 *)

\* the project request p writes to
Target(p) ==
    IF req[p].op = "Update" THEN req[p].parameters.Project
    ELSE req[p].entity.Metadata.Project

\* p and q are overlapping Create or Update requests for default Datasources of
\* different names in one project, and both returned success
RacingDefaults(p, q) ==
    /\ p # q
    /\ pc[p] = "done" /\ pc[q] = "done"
    /\ req[p].op \in {"Create", "Update"} /\ req[q].op \in {"Create", "Update"}
    /\ req[p].entity.Spec.Default /\ req[q].entity.Spec.Default
    /\ req[p].entity.Metadata.Name # req[q].entity.Metadata.Name
    /\ Target(p) = Target(q)
    /\ res[p] = "ok" /\ res[q] = "ok"

\* C4: two overlapping Create or Update requests that carry Spec.Default = TRUE
\* under different names in one project can both read the list before either
\* writes and both return success; the store then holds both as defaults of that
\* project.
C4_BothDefaultsStored ==
    \A p, q \in Procs :
        RacingDefaults(p, q)
        => /\ calls[p][1] = Call("List", "none")
           /\ calls[q][1] = Call("List", "none")
           /\ {out[p][1], out[q][1]} \subseteq DefaultsIn(Target(p))
           /\ Cardinality(DefaultsIn(Target(p))) >= 2

\* a Create and an Update, each naming the project explicitly, raced and left two
\* defaults in it
C4_Witness ==
    \E p, q \in Procs :
        /\ RacingDefaults(p, q)
        /\ req[p].op = "Create" /\ req[q].op = "Update"
        /\ req[p].entity.Metadata.Project = "p1"
        /\ req[q].entity.Metadata.Project = "p1"
        /\ Cardinality(DefaultsIn("p1")) = 2

----------------------------------------------------------------------------
(* C5 *)

\* C5: for a valid Datasource E with Spec.Default = FALSE whose key is unused,
\* Create(E) passes validation and succeeds, and a Get of E's key that follows it
\* returns an entity equal to E in name, project and spec with its timestamps
\* populated (requests one at a time, no collaborator call failing unexpectedly).
C5_CreateThenGet ==
    [][\A p \in Procs :
        /\ (/\ Submits(p)
            /\ req'[p].op = "Create"
            /\ req'[p].entity.Type = "Datasource"
            /\ req'[p].entity.Spec.Payload = "good"
            /\ ~req'[p].entity.Spec.Default)
           => pc'[p] = "create"
        /\ (/\ pc[p] = "create"
            /\ pc'[p] = "done"
            /\ ~req[p].entity.Spec.Default
            /\ req[p].keyFree
            /\ ~Unexpected(calls'[p]))
           => /\ res'[p] = "ok"
              /\ Len(out'[p]) = 1
              /\ SameButTimes(out'[p][1], req[p].entity)
              /\ Stamped(out'[p][1])
              /\ Stored(req[p].entity.Metadata.Project,
                        req[p].entity.Metadata.Name)' = {out'[p][1]}
        /\ (/\ Submits(p)
            /\ req'[p].op = "Get"
            /\ lastWrite.op = "Create"
            /\ ~lastWrite.input.Spec.Default
            /\ req'[p].parameters.Project = lastWrite.input.Metadata.Project
            /\ req'[p].parameters.Name = lastWrite.input.Metadata.Name
            /\ ~Unexpected(calls'[p]))
           => /\ res'[p] = "ok"
              /\ Len(out'[p]) = 1
              /\ SameButTimes(out'[p][1], lastWrite.input)
              /\ Stamped(out'[p][1])
      ]_vars

\* a Get returned the non-default Datasource the Create before it stored
C5_Witness ==
    \E p \in Procs :
        /\ pc[p] = "done"
        /\ req[p].op = "Get"
        /\ res[p] = "ok"
        /\ lastWrite.op = "Create"
        /\ ~lastWrite.input.Spec.Default
        /\ out[p] = <<lastWrite.entity>>
        /\ SameButTimes(out[p][1], lastWrite.input)

----------------------------------------------------------------------------
(* C6 *)

\* the last change of the store was a successful Create of e's key
CreatedLast(e) ==
    /\ lastWrite.op = "Create"
    /\ lastWrite.entity.Metadata.Project = e.Metadata.Project
    /\ lastWrite.entity.Metadata.Name = e.Metadata.Name

\* C6: of two Create calls in sequence with identical (Project, Name), the first
\* succeeding, the second never succeeds: past validation it returns conflict (no
\* storage failure), and the resource stored under the key remains the one the
\* first call wrote.
C6_SecondCreateConflicts ==
    [][\A p \in Procs :
        /\ (/\ Submits(p)
            /\ req'[p].op = "Create"
            /\ CreatedLast(req'[p].entity))
           => /\ store' = store
              /\ pc'[p] = "done" => res'[p] = "BadRequest"
        /\ (/\ pc[p] = "create"
            /\ pc'[p] = "done"
            /\ CreatedLast(req[p].entity))
           => /\ res'[p] # "ok"
              /\ ~Unexpected(calls'[p]) => res'[p] = "Conflict"
              /\ store' = store
              /\ Stored(req[p].entity.Metadata.Project,
                        req[p].entity.Metadata.Name)' = {lastWrite.entity}
      ]_vars

\* a second Create with another spec for the key just created returned conflict
C6_Witness ==
    \E p \in Procs :
        /\ pc[p] = "done"
        /\ req[p].op = "Create"
        /\ res[p] = "Conflict"
        /\ CreatedLast(req[p].entity)
        /\ req[p].entity.Spec # lastWrite.input.Spec
        /\ Stored(req[p].entity.Metadata.Project,
                  req[p].entity.Metadata.Name) = {lastWrite.entity}

----------------------------------------------------------------------------
(* C7 *)

\* C7: Update(E, P) with E.Metadata.Name # P.Name returns malformed-request and
\* leaves the store unchanged in every state: the key stored or not, E valid or
\* not, the list read of the validation failing or not.
C7_NameMismatchRejected ==
    [][\A p \in Procs :
        (/\ Submits(p)
         /\ req'[p].op = "Update"
         /\ req'[p].entity.Metadata.Name # req'[p].parameters.Name)
        => /\ pc'[p] = "done"
           /\ res'[p] = "BadRequest"
           /\ store' = store
      ]_vars

\* an Update whose entity passes validation and whose target is stored was rejected
\* for its name
C7_Witness ==
    \E p \in Procs :
        /\ pc[p] = "done"
        /\ req[p].op = "Update"
        /\ req[p].entity.Type = "Datasource"
        /\ req[p].entity.Metadata.Name # req[p].parameters.Name
        /\ req[p].entity.Metadata.Project = req[p].parameters.Project
        /\ req[p].entity.Spec.Default
        /\ calls[p] = <<Call("List", "none"), Call("Validate", "none")>>
        /\ validate(req[p].entity, "none") = "none"
        /\ Stored(req[p].parameters.Project, req[p].parameters.Name) # {}
        /\ res[p] = "BadRequest"

----------------------------------------------------------------------------
(* C8 *)

\* C8: Update(E, P) with E.Metadata.Project non-empty and different from P.Project
\* returns malformed-request and writes nothing, whatever the store holds.
C8_ProjectMismatchRejected ==
    [][\A p \in Procs :
        (/\ Submits(p)
         /\ req'[p].op = "Update"
         /\ req'[p].entity.Metadata.Project # ""
         /\ req'[p].entity.Metadata.Project # req'[p].parameters.Project)
        => /\ pc'[p] = "done"
           /\ res'[p] = "BadRequest"
           /\ store' = store
      ]_vars

\* an Update with the right name, a valid entity and a stored target, and a stored
\* resource of that name in the entity's project too, was rejected for its project
C8_Witness ==
    \E p \in Procs :
        /\ pc[p] = "done"
        /\ req[p].op = "Update"
        /\ req[p].entity.Type = "Datasource"
        /\ req[p].entity.Metadata.Name = req[p].parameters.Name
        /\ req[p].entity.Metadata.Project # ""
        /\ req[p].entity.Metadata.Project # req[p].parameters.Project
        /\ validate(req[p].entity, "none") = "none"
        /\ ~Unexpected(calls[p])
        /\ Stored(req[p].parameters.Project, req[p].parameters.Name) # {}
        /\ Stored(req[p].entity.Metadata.Project, req[p].entity.Metadata.Name) # {}
        /\ res[p] = "BadRequest"

----------------------------------------------------------------------------
(* C9 *)

\* C9: an Update(E, P) whose E passed validation and is identity-consistent with P
\* returns not-found when its fetch finds nothing stored under (P.Project, P.Name)
\* (no storage failure), and the store still has nothing under that key.
C9_UpdateMissingNotFound ==
    [][\A p \in Procs :
        (/\ pc[p] = "get"
         /\ pc'[p] # "get"
         /\ Stored(req[p].parameters.Project, req[p].parameters.Name) = {}
         /\ ~Unexpected(calls'[p]))
        => /\ pc'[p] = "done"
           /\ res'[p] = "NotFound"
           /\ store' = store
           /\ Stored(req[p].parameters.Project, req[p].parameters.Name)' = {}
      ]_vars

\* an Update with an empty Metadata.Project for a key that is not stored returned
\* not-found
C9_Witness ==
    \E p \in Procs :
        /\ pc[p] = "done"
        /\ req[p].op = "Update"
        /\ req[p].entity.Metadata.Project = ""
        /\ req[p].parameters.Project = "p1"
        /\ Len(calls[p]) >= 1
        /\ calls[p][Len(calls[p])] = Call("Get", "KeyNotFound")
        /\ res[p] = "NotFound"
        /\ Stored(req[p].parameters.Project, req[p].parameters.Name) = {}
        /\ store # {}

----------------------------------------------------------------------------
(* C10 *)

Keys == Projects \X Names

\* C10: with requests one at a time and no storage failure, Delete(P) on a key that
\* is not stored returns not-found and leaves the store unchanged; on a stored key
\* it succeeds and removes that key only; a Get of a key that is not stored returns
\* not-found, and a key that is not stored becomes stored only by a Create for that
\* key that succeeds.
C10_DeleteThenGet ==
    [][/\ \A p \in Procs :
            /\ (/\ Submits(p)
                /\ req'[p].op = "Delete"
                /\ ~Unexpected(calls'[p]))
               => LET gone == Stored(req'[p].parameters.Project,
                                     req'[p].parameters.Name)
                  IN  IF gone = {}
                      THEN res'[p] = "NotFound" /\ store' = store
                      ELSE res'[p] = "ok" /\ store' = store \ gone
            /\ (/\ Submits(p)
                /\ req'[p].op = "Get"
                /\ Stored(req'[p].parameters.Project, req'[p].parameters.Name) = {}
                /\ ~Unexpected(calls'[p]))
               => res'[p] = "NotFound" /\ out'[p] = <<>>
       /\ \A k \in Keys :
            (Stored(k[1], k[2]) = {} /\ Stored(k[1], k[2])' # {})
            => \E p \in Procs :
                  /\ pc[p] = "create"
                  /\ res'[p] = "ok"
                  /\ req[p].entity.Metadata.Project = k[1]
                  /\ req[p].entity.Metadata.Name = k[2]
      ]_vars

\* a Get of the key a Delete just removed returned not-found
C10_Witness ==
    \E p \in Procs :
        /\ pc[p] = "done"
        /\ req[p].op = "Get"
        /\ res[p] = "NotFound"
        /\ lastWrite.op = "Delete"
        /\ lastWrite.entity.Metadata.Project = req[p].parameters.Project
        /\ lastWrite.entity.Metadata.Name = req[p].parameters.Name
        /\ calls[p] = <<Call("Get", "KeyNotFound")>>

----------------------------------------------------------------------------
(* C11 *)

\* C11: a Create, Update, Delete or Get in which a collaborator call failed with a
\* storage failure that is neither key-conflict nor key-not-found returns the
\* internal error kind, whichever call of the request it was, the list read of
\* validation included.
C11_StorageFailureIsInternal ==
    \A p \in Procs :
        (/\ pc[p] = "done"
         /\ req[p].op \in {"Create", "Update", "Delete", "Get"}
         /\ \E i \in 1..Len(calls[p]) : calls[p][i].err = "DBError")
        => res[p] = "Internal"

----------------------------------------------------------------------------
(* C12 *)

\* C12: a Create or an Update of an entity that is not a Datasource returns
\* malformed-request at once, having called neither the Schema Validator nor the
\* Persistence Collaborator, and leaves the store unchanged.
C12_WrongVariantRejected ==
    [][\A p \in Procs :
          (/\ Submits(p)
           /\ req'[p].op \in {"Create", "Update"}
           /\ req'[p].entity.Type # "Datasource")
          => /\ pc'[p] = "done"
             /\ res'[p] = "BadRequest"
             /\ out'[p] = <<>>
             /\ calls'[p] = <<>>
             /\ store' = store
      ]_vars

\* an Update of a Dashboard was rejected over a store that holds a Datasource
C12_Witness ==
    \E p \in Procs :
        /\ pc[p] = "done"
        /\ req[p].op = "Update"
        /\ req[p].entity = OtherEntity
        /\ res[p] = "BadRequest"
        /\ calls[p] = <<>>
        /\ store # {}

----------------------------------------------------------------------------
(* C13 *)

\* o is the subsequence of L made of the elements that satisfy Keep, in the order
\* of L: an increasing choice of positions of L gives o, and no position that
\* satisfies Keep is left out
IsFilteredSubsequence(o, L, Keep(_)) ==
    /\ Len(o) <= Len(L)
    /\ \E f \in [1..Len(o) -> 1..Len(L)] :
          /\ \A i, j \in 1..Len(o) : i < j => f[i] < f[j]
          /\ \A i \in 1..Len(o) : o[i] = L[f[i]] /\ Keep(o[i])
          /\ \A k \in 1..Len(L) : Keep(L[k]) => \E i \in 1..Len(o) : f[i] = k

\* C13: a List(query) whose collaborator call succeeds returns exactly the
\* elements of the collaborator's list for query.Project that have Kind =
\* query.Kind and Default = query.Default, in the collaborator's order, none added,
\* duplicated or reordered; and no List changes the store.
C13_ListFiltersInOrder ==
    [][\A p \in Procs :
          (Submits(p) /\ req'[p].op = "List")
          => /\ store' = store
             /\ calls'[p] = <<Call("List", "none")>>
                => LET q == req'[p].query
                       Keep(e) == e.Spec.Kind = q.Kind /\ e.Spec.Default = q.Default
                   IN  /\ res'[p] = "ok"
                       /\ IsFilteredSubsequence(out'[p], DaoList(q.Project), Keep)
      ]_vars

\* a List returned the second of the two Datasources of a project and not the first
C13_Witness ==
    \E p \in Procs :
        LET L == DaoList(req[p].query.Project)
        IN  /\ pc[p] = "done"
            /\ req[p].op = "List"
            /\ res[p] = "ok"
            /\ Len(L) = 2
            /\ out[p] = <<L[2]>>
            /\ L[1].Spec.Default = req[p].query.Default
            /\ L[1].Spec.Kind # req[p].query.Kind

----------------------------------------------------------------------------
(* C14 *)

\* C14: a List whose collaborator call failed returns the collaborator's error
\* itself, whichever it is (key-not-found, key-conflict or another), never
\* not-found, conflict, internal or malformed-request, and returns no list.
C14_ListErrorUnchanged ==
    \A p \in Procs :
        (/\ pc[p] = "done"
         /\ req[p].op = "List"
         /\ calls[p][1].err # "none")
        => /\ calls[p][1].err \in DaoErrors
           /\ res[p] = calls[p][1].err
           /\ res[p] \notin {"NotFound", "Conflict", "Internal", "BadRequest"}
           /\ out[p] = <<>>

\* a List over a store that is not empty returned the collaborator's key-not-found
C14_Witness ==
    \E p \in Procs :
        /\ pc[p] = "done"
        /\ req[p].op = "List"
        /\ calls[p] = <<Call("List", "KeyNotFound")>>
        /\ res[p] = "KeyNotFound"
        /\ DaoList(req[p].query.Project) # <<>>

----------------------------------------------------------------------------
(* C15 *)

\* the keys that are stored
StoredKeys == {k \in Keys : Stored(k[1], k[2]) # {}}

\* C15: with requests one at a time, the write of a successful Update(E, P) finds
\* the key (P.Project, P.Name) stored and leaves under it one resource that has E's
\* spec, the creation timestamp of the version stored before, and the time of the
\* write as its update timestamp, later than the previous one while the clock has
\* not reached its bound; the stored keys and every other resource stay as they
\* were; and no step changes the creation timestamp of a key that stays stored.
C15_UpdateKeepsCreatedAt ==
    [][/\ \A p \in Procs :
            (pc[p] = "update" /\ res'[p] = "ok")
            => LET P == req[p].parameters
                   E == req[p].entity
                   before == Stored(P.Project, P.Name)
                   after == Stored(P.Project, P.Name)'
               IN  /\ before # {}
                   /\ \E e \in store' :
                         /\ after = {e}
                         /\ out'[p] = <<e>>
                         /\ e.Spec = E.Spec
                         /\ e.Metadata.UpdatedAt = now
                         /\ \A b \in before :
                               /\ e.Metadata.CreatedAt = b.Metadata.CreatedAt
                               /\ e.Metadata.UpdatedAt >= b.Metadata.UpdatedAt
                               /\ now < MaxTime
                                  => e.Metadata.UpdatedAt > b.Metadata.UpdatedAt
                   /\ StoredKeys' = StoredKeys
                   /\ store' \ after = store \ before
       /\ \A k \in Keys :
            \A b \in Stored(k[1], k[2]) :
                \A e \in Stored(k[1], k[2])' :
                    e.Metadata.CreatedAt = b.Metadata.CreatedAt
      ]_vars

\* an Update that left the project empty replaced the stored resource by one with
\* another spec, the old creation timestamp and a later update timestamp
C15_Witness ==
    \E p \in Procs :
        /\ pc[p] = "done"
        /\ req[p].op = "Update"
        /\ res[p] = "ok"
        /\ req[p].entity.Metadata.Project = ""
        /\ lastWrite.op = "Update"
        /\ lastWrite.entity \in store
        /\ out[p] = <<lastWrite.entity>>
        /\ lastWrite.entity.Spec = req[p].entity.Spec
        /\ old[p].Spec # req[p].entity.Spec
        /\ lastWrite.entity.Metadata.CreatedAt = old[p].Metadata.CreatedAt
        /\ lastWrite.entity.Metadata.UpdatedAt > old[p].Metadata.UpdatedAt

----------------------------------------------------------------------------
(* C16 *)

\* C16: with requests one at a time and no unexpected storage failure, an
\* Update(E, P) whose E.Metadata.Project is empty is decided as the Update of E
\* with Metadata.Project set to P.Project is: it passes validation and the identity
\* checks exactly when the payload is valid, the names agree and, for a Default
\* entity, no other default Datasource is stored in P.Project.
C16_EmptyProjectAsFilled ==
    [][\A p \in Procs :
          (/\ Submits(p)
           /\ req'[p].op = "Update"
           /\ req'[p].entity.Type = "Datasource"
           /\ req'[p].entity.Metadata.Project = ""
           /\ ~Unexpected(calls'[p]))
          => LET E == Filled(req'[p].entity, req'[p].parameters)
             IN  pc'[p] = "get"
                 <=> /\ E.Spec.Payload = "good"
                     /\ E.Metadata.Name = req'[p].parameters.Name
                     /\ E.Spec.Default => OtherDefaults(E) = {}
      ]_vars

----------------------------------------------------------------------------
(* C17 *)

\* the calls among cs that went to the Persistence Collaborator
DaoCalls(cs) == SelectSeq(cs, LAMBDA c : c.call # "Validate")

\* C17 as stated: a Create or Update of a Datasource that is rejected as
\* malformed-request for a validation failure or an identity mismatch has invoked
\* no operation of the Persistence Collaborator, read or write.
C17_RejectedWithoutStorage ==
    [][\A p \in Procs :
          (/\ Submits(p)
           /\ req'[p].op \in {"Create", "Update"}
           /\ req'[p].entity.Type = "Datasource"
           /\ res'[p] = "BadRequest"
           /\ ~Unexpected(calls'[p]))
          => DaoCalls(calls'[p]) = <<>>
      ]_vars

\* C17, amended: a Create or Update of a Datasource that is rejected as
\* malformed-request has written nothing and leaves the store unchanged; for an
\* entity that is not default it has invoked no operation of the Persistence
\* Collaborator, and for a default entity the one operation it has invoked is the
\* list read of validation, which precedes the Schema Validator and the identity
\* checks.
C17_RejectedWithoutWrite ==
    [][\A p \in Procs :
          (/\ Submits(p)
           /\ req'[p].op \in {"Create", "Update"}
           /\ req'[p].entity.Type = "Datasource"
           /\ res'[p] = "BadRequest")
          => /\ pc'[p] = "done"
             /\ store' = store
             /\ lastWrite' = lastWrite
             /\ IF req'[p].entity.Spec.Default
                THEN /\ Len(DaoCalls(calls'[p])) = 1
                     /\ calls'[p][1].call = "List"
                ELSE DaoCalls(calls'[p]) = <<>>
      ]_vars

\* a Create of a second default Datasource of a project was rejected after the list
\* read and the Schema Validator
C17_Witness ==
    \E p \in Procs :
        /\ pc[p] = "done"
        /\ req[p].op = "Create"
        /\ req[p].entity.Spec.Default
        /\ req[p].entity.Spec.Payload = "good"
        /\ res[p] = "BadRequest"
        /\ calls[p] = <<Call("List", "none"), Call("Validate", "invalid")>>
        /\ OtherDefaults(req[p].entity) # {}

----------------------------------------------------------------------------
(* C18 *)

\* the collaborator operations that write
WriteCalls == {"Create", "Update", "Delete"}

\* C18: within one request the write comes last and happens at most once: a failed
\* collaborator call is the last call of its request, which then has returned an
\* error; no collaborator operation is called twice; dao.Create is called only
\* after validation succeeded; dao.Update is called only after validation, the
\* name check, the project check and the fetch of the prior version succeeded.
C18_WriteLastAtMostOnce ==
    \A p \in Procs :
        LET cs == calls[p]
            n == Len(cs)
        IN  /\ \A i \in 1..n :
                  cs[i].err # "none"
                  => /\ i = n
                     /\ pc[p] = "done"
                     /\ res[p] \notin {"ok", "none"}
            /\ \A i, j \in 1..n : i < j => cs[i].call # cs[j].call
            /\ \A i \in 1..n : cs[i].call \in WriteCalls => i = n
            /\ \A i \in 1..n :
                  cs[i].call = "Create"
                  => /\ req[p].op = "Create"
                     /\ \E j \in 1..(i - 1) : cs[j] = Call("Validate", "none")
            /\ \A i \in 1..n :
                  cs[i].call = "Update"
                  => /\ req[p].op = "Update"
                     /\ \E j \in 1..(i - 1) : cs[j] = Call("Validate", "none")
                     /\ ~NameMismatch(req[p].entity, req[p].parameters)
                     /\ ~ProjectMismatch(req[p].entity, req[p].parameters)
                     /\ i > 1
                     /\ cs[i - 1] = Call("Get", "none")

\* an Update of a default Datasource made its list read, its validation, its fetch
\* and then its write, which failed and ended the request with an error
C18_Witness ==
    \E p \in Procs :
        /\ pc[p] = "done"
        /\ req[p].op = "Update"
        /\ calls[p] = <<Call("List", "none"), Call("Validate", "none"),
                        Call("Get", "none"), Call("Update", "DBError")>>
        /\ res[p] = "Internal"

----------------------------------------------------------------------------
(* C19 *)

\* this step is taken by the request in slot p
Moves(p) == Submits(p) \/ (pc[p] \in {"create", "get", "update"} /\ pc'[p] # pc[p])

\* C19: a failing collaborator write changing nothing, no step of a request that
\* ends in an error (malformed-request, conflict, not-found, internal, or the
\* collaborator's own error for a List) changes the store, nor does any step before
\* the write; no step of a Get or a List changes the store; the store changes only
\* in the step in which a Create, an Update or a Delete returns success.
C19_ErrorsLeaveStore ==
    [][/\ \A p \in Procs :
            (/\ Moves(p)
             /\ \/ res'[p] # "ok"
                \/ req'[p].op \in {"Get", "List"})
            => store' = store
       /\ store' # store
          => \E p \in Procs :
                /\ Moves(p)
                /\ pc'[p] = "done"
                /\ res'[p] = "ok"
                /\ req'[p].op \in {"Create", "Update", "Delete"}
      ]_vars

\* a Create for a stored key returned conflict
C19_Witness ==
    \E p \in Procs :
        /\ pc[p] = "done"
        /\ req[p].op = "Create"
        /\ res[p] = "Conflict"
        /\ calls[p][Len(calls[p])] = Call("Create", "KeyConflict")
        /\ Stored(req[p].entity.Metadata.Project, req[p].entity.Metadata.Name) # {}

----------------------------------------------------------------------------
(* C20 *)

\* C20: when the key (P.Project, P.Name) is no longer stored at the write of an
\* Update(E, P), a Delete having removed it since the Update fetched the prior
\* version, the Update does not return success with the resource stored again, and
\* if its write fails because the key is gone it returns not-found.
C20_UpdateNeverResurrects ==
    [][\A p \in Procs :
          (/\ pc[p] = "update"
           /\ pc'[p] = "done"
           /\ Stored(req[p].parameters.Project, req[p].parameters.Name) = {})
          => /\ ~(/\ res'[p] = "ok"
                  /\ Stored(req[p].parameters.Project, req[p].parameters.Name)' # {})
             /\ calls'[p][Len(calls'[p])] = Call("Update", "KeyNotFound")
                => res'[p] = "NotFound"
      ]_vars

====
